---- MODULE Spec2Model ----
(***************************************************************************)
(* The transaction store of src/data_storage/db_manager.py: one SQLite     *)
(* database file, the three public operations initialize_database,         *)
(* execute_query and execute_update, and the callers (processes) that run   *)
(* them concurrently, each on a connection of its own.                      *)
(*                                                                          *)
(* The database engine is modelled by what the statements of the source do  *)
(* to the file: the schema of lines 18-52 (UNIQUE source_id, AUTOINCREMENT, *)
(* DEFAULT CURRENT_TIMESTAMP, the AFTER UPDATE trigger), the transaction    *)
(* control of Python's sqlite3 connection (an implicit BEGIN before         *)
(* INSERT/UPDATE/DELETE only, so that DDL runs in autocommit mode), and the *)
(* file locks (SHARED for a running SELECT, RESERVED for an open write      *)
(* transaction, EXCLUSIVE for the instant of a commit) whose conflicts the  *)
(* engine reports as "database is locked".                                  *)
(***************************************************************************)
EXTENDS Integers, Sequences, FiniteSets, TLC

VARIABLES store,    \* the database file: committed schema, rows, AUTOINCREMENT counter
          conn,     \* conn[p]: the connection process p opened (lines 7, 13, 67, 84)
          reserved, \* the process holding the file's RESERVED lock, or "none"
          shared,   \* the processes holding a SHARED lock (a SELECT being stepped)
          pc,       \* pc[p]: where process p stands in its operation
          op,       \* op[p]: the public operation p runs (or ran last)
          stmt,     \* stmt[p]: the statement p passed as `query`
          step,     \* step[p]: the schema statement initialize_database runs next
          out,      \* out[p]: how p's last operation ended
          clock,    \* the store clock read by CURRENT_TIMESTAMP
          calls     \* the number of public operations started so far

vars == <<store, conn, reserved, shared, pc, op, stmt, step, out, clock, calls>>

----------------------------------------------------------------------------
(* Bounds of the model. *)

MaxCalls == 3

\* The readings of the store clock (CURRENT_TIMESTAMP) the model lets pass.
Times == {1, 2}

Procs == {"p1", "p2"}

SourceIds == {"a"}

\* A timestamp a caller may write into a statement: a time before the store's clock.
CallerTimes == {0}

NULL == "NULL"

----------------------------------------------------------------------------
(* The schema of initialize_database. *)

\* The statements of lines 18, 37, 39, 40 and 45, in the order they run,
\* each named by the object it creates.
SchemaStatements ==
    << "transactions",
       "idx_transactions_source_id",
       "idx_transactions_time",
       "idx_transactions_category",
       "update_transactions_updated_at" >>

FullSchema == { SchemaStatements[i] : i \in 1..Len(SchemaStatements) }

\* CREATE ... without IF NOT EXISTS: an error when the object is there.
CreatePlain(schema, obj) ==
    IF obj \in schema
    THEN [ok |-> FALSE, created |-> FALSE, schema |-> schema]
    ELSE [ok |-> TRUE, created |-> TRUE, schema |-> schema \cup {obj}]

\* CREATE ... IF NOT EXISTS obj: nothing happens and nothing fails when obj is there.
CreateIfNotExists(schema, obj) ==
    IF obj \in schema
    THEN [ok |-> TRUE, created |-> FALSE, schema |-> schema]
    ELSE [ok |-> TRUE, created |-> TRUE, schema |-> schema \cup {obj}]

\* The column constraint `source_id TEXT UNIQUE` of line 26 dropped.
NoUniqueConstraint(rows) == TRUE

\* source_id TEXT UNIQUE (line 26): no two rows share a non-null source_id.
UniqueOK(rows) ==
    \A i \in DOMAIN rows : \A j \in DOMAIN rows :
        (i # j /\ rows[i].source_id # NULL) => rows[i].source_id # rows[j].source_id

\* A trigger body that names the wrong timestamp column.
TriggerTouchesCreatedAt(rows, targets, now) ==
    [i \in DOMAIN rows |->
        IF i \in targets THEN [rows[i] EXCEPT !.created_at = now] ELSE rows[i]]

\* The trigger of lines 45-52, fired for each updated row:
\* UPDATE transactions SET updated_at = CURRENT_TIMESTAMP WHERE id = OLD.id.
update_transactions_updated_at(rows, targets, now) ==
    [i \in DOMAIN rows |->
        IF i \in targets THEN [rows[i] EXCEPT !.updated_at = now] ELSE rows[i]]

----------------------------------------------------------------------------
(* The statements callers pass, and what the engine does with them. *)

Ids == 1..MaxCalls

\* INSERT INTO transactions (...) VALUES (...): `values` holds the columns the
\* statement names besides the required ones; source_id may be NULL.
InsertStatements ==
    { [kind |-> "INSERT", values |-> v] :
        v \in [{"source_id"} -> SourceIds \cup {NULL}] }
    \cup
    { [kind |-> "INSERT", values |-> [source_id |-> s, updated_at |-> t]] :
        s \in SourceIds \cup {NULL}, t \in CallerTimes }
    \cup
    { [kind |-> "INSERT", values |-> [source_id |-> s, created_at |-> t]] :
        s \in SourceIds \cup {NULL}, t \in CallerTimes }

\* UPDATE transactions SET col = val WHERE id IN where.
Assignments ==
    { [col |-> "category", val |-> "Groceries"] }
    \cup { [col |-> "source_id", val |-> s] : s \in SourceIds }
    \cup { [col |-> "updated_at", val |-> t] : t \in CallerTimes }
    \cup { [col |-> "created_at", val |-> t] : t \in CallerTimes }

Wheres == { {1}, Ids }

UpdateStatements ==
    { [kind |-> "UPDATE", set |-> a, where |-> w] : a \in Assignments, w \in Wheres }

\* DELETE FROM transactions WHERE id IN where.
DeleteStatements == { [kind |-> "DELETE", where |-> w] : w \in Wheres }

\* SELECT * FROM transactions.
SelectStatements == { [kind |-> "SELECT"] }

DML == InsertStatements \cup UpdateStatements \cup DeleteStatements

NoStmt == [kind |-> "NONE"]

\* The row an INSERT writes: DEFAULT CURRENT_TIMESTAMP (lines 29-30) fills the
\* timestamps the statement does not name.
NewRow(st, now) ==
    [ source_id  |-> st.values.source_id,
      category   |-> NULL,
      created_at |-> IF "created_at" \in DOMAIN st.values
                     THEN st.values.created_at ELSE now,
      updated_at |-> IF "updated_at" \in DOMAIN st.values
                     THEN st.values.updated_at ELSE now ]

\* A WHERE clause that is ignored.
EveryRow(st, rows) == DOMAIN rows

\* The rows an UPDATE or DELETE touches.
Targets(st, rows) == st.where \cap DOMAIN rows

\* A DML statement run on the database image db = [rows, seq]; `schema` is the
\* committed schema, `now` the clock.  A statement that violates a constraint
\* is backed out whole (conflict resolution ABORT) and reports failure.
ExecDML(st, db, schema, now) ==
    CASE st.kind = "INSERT" ->
           LET id  == db.seq + 1
               new == (id :> NewRow(st, now)) @@ db.rows
           IN  IF UniqueOK(new)
               THEN [ok |-> TRUE, db |-> [rows |-> new, seq |-> id]]
               ELSE [ok |-> FALSE, db |-> db]
      [] st.kind = "UPDATE" ->
           LET t   == Targets(st, db.rows)
               set == [i \in DOMAIN db.rows |->
                         IF i \in t
                         THEN [db.rows[i] EXCEPT ![st.set.col] = st.set.val]
                         ELSE db.rows[i]]
               new == IF "update_transactions_updated_at" \in schema
                      THEN update_transactions_updated_at(set, t, now)
                      ELSE set
           IN  IF UniqueOK(set)
               THEN [ok |-> TRUE, db |-> [db EXCEPT !.rows = new]]
               ELSE [ok |-> FALSE, db |-> db]
      [] st.kind = "DELETE" ->
           LET keep == DOMAIN db.rows \ Targets(st, db.rows)
           IN  [ok |-> TRUE,
                db |-> [db EXCEPT !.rows = [i \in keep |-> db.rows[i]]]]

----------------------------------------------------------------------------
(* Connections and transactions. *)

Image(st) == [rows |-> st.rows, seq |-> st.seq]

NoWork == [rows |-> << >>, seq |-> 0]

NoOut == [kind |-> "none"]

Raised == [kind |-> "raised"]

Returned(v) == [kind |-> "returned", val |-> v]

\* No connection: the handle before get_db_connection() and after close().
NoConn == [open |-> FALSE, intxn |-> FALSE, work |-> NoWork]

\* A close that leaves the handle open.
LeftOpen(c) == c

\* conn.close() (lines 63, 80, 98): the handle is gone, and with it whatever
\* transaction it had open.
Closed(c) == NoConn

\* A rollback that keeps the image the transaction had written.
KeepsWork(committed, work) == work

\* conn.rollback() (lines 61, 95): the file keeps its committed image.
RolledBack(committed, work) == committed

\* A close that commits the open transaction.
CommittedOnClose(committed, work) == work

\* conn.close() with a transaction open and no commit (line 80 after a DML
\* statement ran at line 71 or 73): the engine rolls the transaction back.
DiscardedOnClose(committed, work) == committed

\* conn.commit() (lines 57, 91): the transaction's image becomes the file's.
Committed(committed, work) == work

\* The file with the image db written to it.
WithImage(st, db) == [st EXCEPT !.rows = db.rows, !.seq = db.seq]

\* cursor.fetchall() turned into a list of dicts (line 74): the rows in rowid order.
RECURSIVE RowsInOrder(_)
RowsInOrder(rows) ==
    IF DOMAIN rows = {} THEN << >>
    ELSE LET m == CHOOSE i \in DOMAIN rows : \A j \in DOMAIN rows : j <= i
             r == rows[m]
         IN  Append(RowsInOrder([k \in DOMAIN rows \ {m} |-> rows[k]]),
                    [ id |-> m, source_id |-> r.source_id, category |-> r.category,
                      created_at |-> r.created_at, updated_at |-> r.updated_at ])

\* cursor.execute of a DML statement (lines 71/73, 88/90) on p's connection:
\* sqlite3 prepares the statement ("no such table" fails here), issues the
\* implicit BEGIN, and the statement takes the RESERVED lock ("database is
\* locked" when another connection holds it) before it writes.
DMLStep(p, st) ==
    IF "transactions" \notin store.schema
    THEN [ok |-> FALSE, intxn |-> FALSE, locked |-> FALSE, work |-> NoWork]
    ELSE IF reserved \notin {"none", p}
    THEN [ok |-> FALSE, intxn |-> TRUE, locked |-> FALSE, work |-> Image(store)]
    ELSE LET r == ExecDML(st, Image(store), store.schema, clock)
         IN  [ok |-> r.ok, intxn |-> TRUE, locked |-> TRUE, work |-> r.db]

----------------------------------------------------------------------------
(* The initial state: an empty database file, no caller running. *)

Init ==
    /\ store = [schema |-> {}, rows |-> << >>, seq |-> 0]
    /\ conn = [p \in Procs |-> NoConn]
    /\ reserved = "none"
    /\ shared = {}
    /\ pc = [p \in Procs |-> "idle"]
    /\ op = [p \in Procs |-> "none"]
    /\ stmt = [p \in Procs |-> NoStmt]
    /\ step = [p \in Procs |-> 0]
    /\ out = [p \in Procs |-> NoOut]
    /\ clock = 1
    /\ calls = 0

Operations == {"initialize_database", "execute_query", "execute_update"}

StatementsOf(o) ==
    CASE o = "initialize_database" -> {NoStmt}
      [] o = "execute_query" -> SelectStatements \cup DML
      [] o = "execute_update" -> DML

\* The handle get_db_connection() returns (lines 5-9).  sqlite3.connect opens
\* the file lazily and takes no lock, so no other caller can observe it: the
\* call at lines 13, 67, 84 is one step with the first cursor.execute.
get_db_connection == [open |-> TRUE, intxn |-> FALSE, work |-> NoWork]

\* A caller may enter a public operation.
Entering(p) == pc[p] = "idle" /\ calls < MaxCalls

\* sqlite3.connect (line 7) fails: the call at lines 13, 67, 84 stands outside
\* the try block, so the error leaves the operation.
ConnectFails(p) ==
    /\ Entering(p)
    /\ \E o \in Operations : op' = [op EXCEPT ![p] = o]
    /\ out' = [out EXCEPT ![p] = Raised]
    /\ calls' = calls + 1
    /\ UNCHANGED <<store, conn, reserved, shared, pc, stmt, step, clock>>

----------------------------------------------------------------------------
(* initialize_database, lines 11-63. *)

\* One of the five cursor.execute calls of lines 18-52 (the first one together
\* with lines 13-14).  Python's sqlite3 opens no transaction for DDL, so a
\* CREATE that has something to create is committed by the engine at once,
\* for which it needs the file to itself.
InitExecute(p) ==
    /\ \/ Entering(p)
       \/ op[p] = "initialize_database" /\ pc[p] = "execute"
    /\ LET k    == IF pc[p] = "idle" THEN 1 ELSE step[p]
           obj  == SchemaStatements[k]
           r    == CreateIfNotExists(store.schema, obj)
           free == reserved = "none" /\ shared = {}
           ok   == /\ r.ok
                   /\ r.created => free
                   /\ obj # "transactions" => "transactions" \in store.schema
       IN  /\ store' = IF ok THEN [store EXCEPT !.schema = r.schema] ELSE store
           /\ pc' = [pc EXCEPT ![p] =
                        IF ~ok THEN "except"
                        ELSE IF k = Len(SchemaStatements) THEN "commit"
                        ELSE "execute"]
           /\ step' = [step EXCEPT ![p] = IF ok THEN k + 1 ELSE k]
    /\ op' = [op EXCEPT ![p] = "initialize_database"]
    /\ conn' = [conn EXCEPT ![p] = get_db_connection]
    /\ out' = [out EXCEPT ![p] = NoOut]
    /\ calls' = IF pc[p] = "idle" THEN calls + 1 ELSE calls
    /\ UNCHANGED <<reserved, shared, stmt, clock>>

\* conn.commit() at line 57: no transaction is open, nothing is left to commit.
InitCommit(p) ==
    /\ op[p] = "initialize_database" /\ pc[p] = "commit"
    /\ pc' = [pc EXCEPT ![p] = "close"]
    /\ out' = [out EXCEPT ![p] = Returned("None")]
    /\ UNCHANGED <<store, conn, reserved, shared, op, stmt, step, clock, calls>>

\* except sqlite3.Error (lines 59-61): log, conn.rollback().
InitExcept(p) ==
    /\ op[p] = "initialize_database" /\ pc[p] = "except"
    /\ store' = IF conn[p].intxn
                THEN WithImage(store, RolledBack(Image(store), conn[p].work))
                ELSE store
    /\ pc' = [pc EXCEPT ![p] = "close"]
    /\ out' = [out EXCEPT ![p] = Returned("None")]
    /\ UNCHANGED <<conn, reserved, shared, op, stmt, step, clock, calls>>

----------------------------------------------------------------------------
(* execute_query, lines 65-80. *)

\* Lines 67-73: the connection and cursor.execute.  A SELECT is stepped to its
\* first row and holds the SHARED lock until fetchall has read the last one.
QueryExecute(p) ==
    /\ Entering(p)
    /\ \E s \in StatementsOf("execute_query") :
        /\ stmt' = [stmt EXCEPT ![p] = s]
        /\ IF s.kind = "SELECT"
           THEN /\ shared' = IF "transactions" \in store.schema
                             THEN shared \cup {p} ELSE shared
                /\ pc' = [pc EXCEPT ![p] =
                             IF "transactions" \in store.schema THEN "fetch" ELSE "except"]
                /\ conn' = [conn EXCEPT ![p] = get_db_connection]
                /\ UNCHANGED reserved
           ELSE LET r == DMLStep(p, s)
                IN  /\ conn' = [conn EXCEPT ![p] =
                          [get_db_connection EXCEPT !.intxn = r.intxn, !.work = r.work]]
                    /\ reserved' = IF r.locked THEN p ELSE reserved
                    /\ pc' = [pc EXCEPT ![p] = IF r.ok THEN "fetch" ELSE "except"]
                    /\ UNCHANGED shared
    /\ op' = [op EXCEPT ![p] = "execute_query"]
    /\ out' = [out EXCEPT ![p] = NoOut]
    /\ calls' = calls + 1
    /\ UNCHANGED <<store, step, clock>>

\* results = [dict(row) for row in cursor.fetchall()]; return results (74-75).
QueryFetch(p) ==
    /\ op[p] = "execute_query" /\ pc[p] = "fetch"
    /\ out' = [out EXCEPT ![p] =
                  Returned(IF stmt[p].kind = "SELECT"
                           THEN RowsInOrder(store.rows) ELSE << >>)]
    /\ shared' = shared \ {p}
    /\ pc' = [pc EXCEPT ![p] = "close"]
    /\ stmt' = [stmt EXCEPT ![p] = NoStmt]
    /\ UNCHANGED <<store, conn, reserved, op, step, clock, calls>>

\* except sqlite3.Error (lines 76-78): log, return [].
QueryExcept(p) ==
    /\ op[p] = "execute_query" /\ pc[p] = "except"
    /\ out' = [out EXCEPT ![p] = Returned(<< >>)]
    /\ pc' = [pc EXCEPT ![p] = "close"]
    /\ stmt' = [stmt EXCEPT ![p] = NoStmt]
    /\ UNCHANGED <<store, conn, reserved, shared, op, step, clock, calls>>

----------------------------------------------------------------------------
(* execute_update, lines 82-98. *)

\* Lines 84-90: the connection and cursor.execute.
UpdateExecute(p) ==
    /\ Entering(p)
    /\ \E s \in StatementsOf("execute_update") :
        /\ stmt' = [stmt EXCEPT ![p] = s]
        /\ LET r == DMLStep(p, s)
           IN  /\ conn' = [conn EXCEPT ![p] =
                     [get_db_connection EXCEPT !.intxn = r.intxn, !.work = r.work]]
               /\ reserved' = IF r.locked THEN p ELSE reserved
               /\ pc' = [pc EXCEPT ![p] = IF r.ok THEN "commit" ELSE "except"]
    /\ op' = [op EXCEPT ![p] = "execute_update"]
    /\ out' = [out EXCEPT ![p] = NoOut]
    /\ calls' = calls + 1
    /\ UNCHANGED <<store, shared, step, clock>>

\* conn.commit(); return True (lines 91-92).  The commit needs the EXCLUSIVE
\* lock, which a reader's SHARED lock denies ("database is locked").
UpdateCommit(p) ==
    /\ op[p] = "execute_update" /\ pc[p] = "commit"
    /\ IF shared = {}
       THEN /\ store' = WithImage(store, Committed(Image(store), conn[p].work))
            /\ conn' = [conn EXCEPT ![p].intxn = FALSE, ![p].work = NoWork]
            /\ reserved' = IF reserved = p THEN "none" ELSE reserved
            /\ out' = [out EXCEPT ![p] = Returned(TRUE)]
            /\ pc' = [pc EXCEPT ![p] = "close"]
            /\ stmt' = [stmt EXCEPT ![p] = NoStmt]
       ELSE /\ pc' = [pc EXCEPT ![p] = "except"]
            /\ UNCHANGED <<store, conn, reserved, out, stmt>>
    /\ UNCHANGED <<shared, op, step, clock, calls>>

\* except sqlite3.Error (lines 93-96): log, conn.rollback(), return False.
UpdateExcept(p) ==
    /\ op[p] = "execute_update" /\ pc[p] = "except"
    /\ store' = IF conn[p].intxn
                THEN WithImage(store, RolledBack(Image(store), conn[p].work))
                ELSE store
    /\ conn' = [conn EXCEPT ![p].intxn = FALSE, ![p].work = NoWork]
    /\ reserved' = IF reserved = p THEN "none" ELSE reserved
    /\ out' = [out EXCEPT ![p] = Returned(FALSE)]
    /\ pc' = [pc EXCEPT ![p] = "close"]
    /\ stmt' = [stmt EXCEPT ![p] = NoStmt]
    /\ UNCHANGED <<shared, op, step, clock, calls>>

----------------------------------------------------------------------------
(* finally: conn.close() (lines 62-63, 79-80, 97-98), and the return, which  *)
(* hands out[p] to the caller.                                              *)

Close(p) ==
    /\ pc[p] = "close"
    /\ store' = IF conn[p].intxn
                THEN WithImage(store, DiscardedOnClose(Image(store), conn[p].work))
                ELSE store
    /\ conn' = [conn EXCEPT ![p] = Closed(conn[p])]
    /\ reserved' = IF reserved = p THEN "none" ELSE reserved
    /\ shared' = shared \ {p}
    /\ pc' = [pc EXCEPT ![p] = "idle"]
    /\ step' = [step EXCEPT ![p] = 0]
    /\ op' = [op EXCEPT ![p] = "none"]
    /\ out' = [out EXCEPT ![p] = NoOut]
    /\ UNCHANGED <<stmt, clock, calls>>

\* Time passes on the store's clock.
Tick ==
    /\ clock + 1 \in Times
    /\ clock' = clock + 1
    /\ UNCHANGED <<store, conn, reserved, shared, pc, op, stmt, step, out, calls>>

Next ==
    \/ \E p \in Procs : ConnectFails(p)
    \/ \E p \in Procs : InitExecute(p)
    \/ \E p \in Procs : InitCommit(p)
    \/ \E p \in Procs : InitExcept(p)
    \/ \E p \in Procs : QueryExecute(p)
    \/ \E p \in Procs : QueryFetch(p)
    \/ \E p \in Procs : QueryExcept(p)
    \/ \E p \in Procs : UpdateExecute(p)
    \/ \E p \in Procs : UpdateCommit(p)
    \/ \E p \in Procs : UpdateExcept(p)
    \/ \E p \in Procs : Close(p)
    \/ Tick

Spec == Init /\ [][Next]_vars

----------------------------------------------------------------------------
(* Properties. *)

\* Process p is inside public operation o.
Running(p, o) == op[p] = o /\ pc[p] # "idle"

\* The step is one of process p.
Moved(p) == pc'[p] # pc[p] \/ step'[p] # step[p]

\* The step is one of process p inside operation o.
StepOf(p, o) == Moved(p) /\ (Running(p, o) \/ Running(p, o)')

\* The rows of the image `rows` that carry source_id s.
RowsWith(rows, s) == { i \in DOMAIN rows : rows[i].source_id = s }

\* C1: no two rows of transactions share a non-null source_id, whatever
\* statements the callers interleave; an INSERT through execute_update whose
\* non-null source_id is already in the table takes the error path, which
\* returns False and leaves the one row that carries the source_id.
C1_UniqueSourceId ==
    /\ [](\A s \in SourceIds : Cardinality(RowsWith(store.rows, s)) <= 1)
    /\ [][\A p \in Procs :
            /\ ( /\ Entering(p) /\ Running(p, "execute_update")'
                 /\ stmt'[p].kind = "INSERT"
                 /\ RowsWith(store.rows, stmt'[p].values.source_id) # {}
                 /\ stmt'[p].values.source_id # NULL )
               => pc'[p] = "except"
            /\ ( Running(p, "execute_update") /\ pc[p] = "except" /\ Moved(p) )
               => /\ out'[p] = Returned(FALSE)
                  /\ store' = store
                  /\ stmt[p].kind = "INSERT" /\ stmt[p].values.source_id # NULL
                     => Cardinality(RowsWith(store'.rows, stmt[p].values.source_id)) <= 1
         ]_vars

\* C1's case: a second INSERT of a source_id the table holds has been refused.
C1_Witness ==
    \E p \in Procs :
        /\ Running(p, "execute_update") /\ pc[p] = "except"
        /\ stmt[p].kind = "INSERT"
        /\ stmt[p].values.source_id # NULL
        /\ reserved = p
        /\ Cardinality(RowsWith(store.rows, stmt[p].values.source_id)) = 1

\* C2: a call of execute_update changes the persisted store in one step only,
\* the commit after which it returns True; a call that returns False has
\* left the rows, the counter and the schema as they were.
C2_FailedUpdateLeavesStore ==
    [][\A p \in Procs :
          (StepOf(p, "execute_update") /\ store' # store)
          => (pc[p] = "commit" /\ pc'[p] = "close" /\ out'[p] = Returned(TRUE))
      ]_vars

\* C2's case: the statement ran, the commit was refused, and the change the
\* transaction holds is about to be rolled back.
C2_Witness ==
    \E p \in Procs :
        /\ Running(p, "execute_update") /\ pc[p] = "except"
        /\ conn[p].intxn
        /\ conn[p].work.rows # store.rows

\* C3: no public operation raises to its caller.
C3_NoExceptionEscapes == \A p \in Procs : out[p].kind # "raised"

\* C4: initialize_database is idempotent.  A call that reaches its commit
\* leaves the table, the three indexes and the trigger; on a database that
\* holds them all, every step of a further call changes nothing and takes no
\* error path; and no step of any call touches a row or the id counter.
C4_InitIdempotent ==
    /\ [](\A p \in Procs :
            (Running(p, "initialize_database") /\ pc[p] = "commit")
            => store.schema = FullSchema)
    /\ [][\A p \in Procs :
            StepOf(p, "initialize_database")
            => /\ Image(store') = Image(store)
               /\ store.schema \subseteq store'.schema
               /\ store.schema = FullSchema
                  => (store' = store /\ pc'[p] # "except")
         ]_vars

\* C4's case: a repeated call has run its first statement on a database that
\* already holds the whole schema and a row.
C4_Witness ==
    \E p \in Procs :
        /\ Running(p, "initialize_database")
        /\ pc[p] = "execute" /\ step[p] = 2
        /\ store.schema = FullSchema
        /\ DOMAIN store.rows # {}

\* C5: initialization is all-or-nothing: when no call of initialize_database
\* is in progress, the schema objects are all there or none is.
C5_InitAllOrNothing ==
    (\A p \in Procs : ~Running(p, "initialize_database"))
    => store.schema \in {{}, FullSchema}

\* C6: every operation closes the connection it opened on every exit path:
\* a caller that is in no operation holds no open connection, no open
\* transaction and no lock on the file.
C6_ConnectionsClosed ==
    \A p \in Procs :
        pc[p] = "idle"
        => (~conn[p].open /\ ~conn[p].intxn /\ reserved # p /\ p \notin shared)

\* C6's case: operations have run to their end, one of them a committed
\* insert, and every caller is back outside.
C6_Witness ==
    /\ calls = MaxCalls
    /\ \A p \in Procs : pc[p] = "idle" /\ out[p].kind # "raised"
    /\ DOMAIN store.rows # {}

\* The rows a statement of execute_update has written when it succeeds.
Written(st, before, after) ==
    CASE st.kind = "INSERT" -> {after.seq}
      [] st.kind = "UPDATE" -> Targets(st, before.rows)
      [] OTHER -> {}

\* C7: updated_at is the store clock's time of the row's latest successful
\* mutation, and never a value the caller chose: no committed row carries a
\* caller's timestamp, and every row a successful statement of execute_update
\* wrote carries the clock's reading of that moment.
C7_UpdatedAtIsMutationTime ==
    /\ [](\A i \in DOMAIN store.rows : store.rows[i].updated_at \notin CallerTimes)
    /\ [][\A p \in Procs :
            (Entering(p) /\ Running(p, "execute_update")' /\ pc'[p] = "commit")
            => \A i \in Written(stmt'[p], Image(store), conn'[p].work) :
                  conn'[p].work.rows[i].updated_at = clock
         ]_vars

====
